---- MODULE Spec2Model ----
(***************************************************************************)
(* Finite automata (src/automato.py), the regular-expression compiler      *)
(* (src/er.py, src/exercicio2/er.py) and the grammar analysers             *)
(* (src/exercicio3/main.py, src/exercicio4/main.py).                       *)
(*                                                                         *)
(* A Python str is a sequence of one-character strings, so that            *)
(* concatenation, sorting and indexing are computed as Python does.  A     *)
(* Python set is a set, a dict is a function on its keys.                  *)
(***************************************************************************)
EXTENDS Integers, Sequences, FiniteSets, TLC

VARIABLES
    pc,         \* the step of the program that ran last
    erro,       \* the exception that ended the program, "" when none
    afnd,       \* the automaton the program parsed
    afd,        \* the automaton the program computed
    retorno,    \* what a method returned, called twice on afnd
    particao,   \* calcular_estados_equivalentes: classes, as the loop goes
    vistas,     \* calcular_estados_equivalentes: visitados, as the loop goes
    arvore,     \* the regular expression the input text was written from
    entrada,    \* the input text of convert_regex
    regex,      \* the syntax tree convert_regex annotates
    anotacao,   \* the annotated tree and the followpos table
    dfa_tuple,  \* the tuple generate_automaton returned
    saida,      \* the text the program prints
    rules,      \* the rules parse_grammar read, in the order of the input
    first,      \* get_first of each nonterminal
    follow,     \* get_follow of each nonterminal
    table       \* what generate_ll_table returned or raised

vars_af == <<afnd, afd, retorno, particao, vistas>>
vars_er == <<arvore, entrada, regex, anotacao, dfa_tuple, saida>>
vars_g == <<rules, first, follow, table>>
vars == <<pc, erro, vars_af, vars_er, vars_g>>

---------------------------------------------------------------------------
(* Python str *)

\* code points of the characters the model uses
ord ==
    ("A" :> 65) @@ ("B" :> 66) @@ ("C" :> 67) @@ ("E" :> 69) @@ ("S" :> 83)
    @@ ("T" :> 84) @@ ("a" :> 97) @@ ("b" :> 98) @@ ("c" :> 99) @@ ("i" :> 105)
    @@ ("+" :> 43)
    @@ ("&" :> 38) @@ ("$" :> 36) @@ ("#" :> 35)
    @@ ("{" :> 123) @@ ("}" :> 125)

\* s < t on str: the first difference decides, a proper prefix is smaller
StrLess(s, t) ==
    \E i \in 1..Len(t) :
        /\ \A j \in 1..(i - 1) : j <= Len(s) /\ s[j] = t[j]
        /\ Len(s) >= i - 1
        /\ (Len(s) = i - 1 \/ ord[s[i]] < ord[t[i]])

RECURSIVE sorted(_)
\* sorted(estados): the list in increasing order
sorted(S) ==
    IF S = {} THEN <<>>
    ELSE LET m == CHOOSE x \in S : \A y \in S \ {x} : StrLess(x, y)
         IN  <<m>> \o sorted(S \ {m})

RECURSIVE join(_)
\* "".join(lista)
join(lista) ==
    IF lista = <<>> THEN <<>> ELSE Head(lista) \o join(Tail(lista))

---------------------------------------------------------------------------
(* src/automato.py *)

Epsilon == "&"

\* the default simbolo=None of pegar_alcancaveis
None == "None"

unir_estados(estados) ==
    <<"{">> \o join(sorted(estados)) \o <<"}">>

pegar_estados(transicoes) ==
    {t[1] : t \in transicoes} \cup {t[3] : t \in transicoes}

criar_mapa_de_transicao(transicoes) ==
    [chave \in {<<t[1], t[2]>> : t \in transicoes} |->
        {t[3] : t \in {u \in transicoes : u[1] = chave[1] /\ u[2] = chave[2]}}]

AutomatoFinito(estado_inicial, estados_finais, alfabeto, transicoes) ==
    [estados         |-> pegar_estados(transicoes),
     estado_inicial  |-> estado_inicial,
     estados_finais  |-> estados_finais,
     alfabeto        |-> alfabeto \ {Epsilon},
     mapa_transicoes |-> criar_mapa_de_transicao(transicoes)]

transicao(self, origem, simbolo) ==
    IF <<origem, simbolo>> \in DOMAIN self.mapa_transicoes
    THEN self.mapa_transicoes[<<origem, simbolo>>]
    ELSE {}

transicoes(self) ==
    UNION {{<<chave[1], chave[2], d>> : d \in self.mapa_transicoes[chave]} :
             chave \in DOMAIN self.mapa_transicoes}

RECURSIVE busca_em_largura(_, _, _, _)
\* the while loop of pegar_alcancaveis; the set it returns does not depend
\* on which element restantes.pop() takes
busca_em_largura(self, simbolos, alcancados, restantes) ==
    IF restantes = {} THEN alcancados
    ELSE LET estado   == CHOOSE e \in restantes : TRUE
             destinos == UNION {transicao(self, estado, s) : s \in simbolos}
         IN  busca_em_largura(self, simbolos, alcancados \cup destinos,
                              (restantes \ {estado}) \cup (destinos \ alcancados))

pegar_alcancaveis(self, estado, simbolo) ==
    busca_em_largura(self,
                     IF simbolo # None THEN {simbolo} ELSE self.alfabeto,
                     {estado}, {estado})

calcular_epsilon_fecho(self) ==
    [estado \in self.estados |-> pegar_alcancaveis(self, estado, Epsilon)]

\* the body of "for simbolo in self.alfabeto" for one conjunto_origem
conjunto_destino(self, fecho, conjunto_origem, simbolo) ==
    UNION {fecho[destino] :
             destino \in UNION {transicao(self, estado, simbolo) :
                                  estado \in conjunto_origem}}

RECURSIVE determinizar_laco(_, _, _, _, _, _)
\* the while loop of determinizar
determinizar_laco(self, fecho, visitados, restantes, transicoes_, finais) ==
    IF restantes = {} THEN [transicoes |-> transicoes_, finais |-> finais]
    ELSE LET conjunto_origem == CHOOSE c \in restantes : TRUE
             origem   == unir_estados(conjunto_origem)
             destinos == {conjunto_destino(self, fecho, conjunto_origem, s) :
                            s \in self.alfabeto} \ {{}}
             novas    == {<<origem, s,
                            unir_estados(conjunto_destino(self, fecho,
                                                          conjunto_origem, s))>> :
                            s \in {x \in self.alfabeto :
                                     conjunto_destino(self, fecho,
                                                      conjunto_origem, x) # {}}}
         IN  IF conjunto_origem \in visitados
             THEN determinizar_laco(self, fecho, visitados,
                                    restantes \ {conjunto_origem},
                                    transicoes_, finais)
             ELSE determinizar_laco(
                      self, fecho, visitados \cup {conjunto_origem},
                      (restantes \ {conjunto_origem})
                          \cup (destinos \ (visitados \cup {conjunto_origem})),
                      transicoes_ \cup novas,
                      IF conjunto_origem \cap self.estados_finais # {}
                      THEN finais \cup {origem} ELSE finais)

\* determinizar raises KeyError at fecho[self.estado_inicial] when the
\* initial state is in no transition
determinizar_falha(self) == self.estado_inicial \notin self.estados

determinizar(self) ==
    LET fecho == calcular_epsilon_fecho(self)
        conjunto_inicial == fecho[self.estado_inicial]
        r == determinizar_laco(self, fecho, {}, {conjunto_inicial}, {}, {})
    IN  AutomatoFinito(unir_estados(conjunto_inicial), r.finais,
                       self.alfabeto, r.transicoes)

pegar_estados_produtivos(self) ==
    {origem \in self.estados :
        pegar_alcancaveis(self, origem, None) \cap self.estados_finais # {}}

descartar_estados_inuteis(self) ==
    LET alcancaveis   == pegar_alcancaveis(self, self.estado_inicial, None)
        produtivos    == pegar_estados_produtivos(self)
        inalcancaveis == self.estados \ alcancaveis
        mortos        == self.estados \ produtivos
        descartados   == inalcancaveis \cup mortos
    IN  AutomatoFinito(self.estado_inicial,
                       self.estados_finais \ descartados,
                       self.alfabeto,
                       {t \in transicoes(self) :
                           t[1] \notin descartados /\ t[3] \notin descartados})

\* "destino, *_ = destinos" takes the element the set yields first: any
\* element, the same one each time the same set is asked.  A selection gives
\* the element taken for each key of the transition map.
Selecoes(self) ==
    {sel \in [DOMAIN self.mapa_transicoes -> self.estados] :
        \A chave \in DOMAIN self.mapa_transicoes :
            sel[chave] \in self.mapa_transicoes[chave]}

\* enumerate(classes): the classes numbered from 0 in the order the
\* frozenset yields them
enumerate(classes) ==
    CHOOSE f \in [0..(Cardinality(classes) - 1) -> classes] :
        \A i, j \in DOMAIN f : f[i] = f[j] => i = j

\* the key with a missing transition counted as a move to the class numbered
\* 0, as it would be with a trap state that sits in that class
chave_com_armadilha(self, sel, classes, estado) ==
    LET numeradas == enumerate(classes)
    IN  [classes_destino |->
            [simbolo \in self.alfabeto |->
                IF transicao(self, estado, simbolo) = {} THEN 0
                ELSE CHOOSE i \in DOMAIN numeradas :
                        sel[<<estado, simbolo>>] \in numeradas[i]],
         final |-> estado \in self.estados_finais]

\* classes_destino and final of one state: per symbol, the index of the
\* class of the destination, or -1 without a transition
chave_de_classe(self, sel, classes, estado) ==
    LET numeradas == enumerate(classes)
    IN  [classes_destino |->
            [simbolo \in self.alfabeto |->
                IF transicao(self, estado, simbolo) = {} THEN -1
                ELSE CHOOSE i \in DOMAIN numeradas :
                        sel[<<estado, simbolo>>] \in numeradas[i]],
         final |-> estado \in self.estados_finais]

\* one pass of the "while True" loop: the states grouped by their key
agrupar(self, sel, classes) ==
    {{e \in self.estados :
         chave_de_classe(self, sel, classes, e)
             = chave_de_classe(self, sel, classes, estado)} :
        estado \in self.estados}

RECURSIVE equivalentes_laco(_, _, _, _)
equivalentes_laco(self, sel, classes, visitados) ==
    LET novas == agrupar(self, sel, classes)
    IN  IF novas \in visitados THEN novas
        ELSE equivalentes_laco(self, sel, novas, visitados \cup {novas})

calcular_estados_equivalentes(self, sel) ==
    equivalentes_laco(self, sel,
                      {self.estados \ self.estados_finais, self.estados_finais},
                      {})

\* minimizar raises KeyError at mapa[automato.estado_inicial] or at
\* mapa[estado] of a final state that is in no transition left
minimizar_falha(self) ==
    LET automato == descartar_estados_inuteis(self)
    IN  \/ automato.estado_inicial \notin automato.estados
        \/ ~(automato.estados_finais \subseteq automato.estados)

\* minimizar naming each class by the last label of sorted(classe)
minimizar_ultimo(self, sel) ==
    LET automato == descartar_estados_inuteis(self)
        estados_equivalentes == calcular_estados_equivalentes(automato, sel)
        mapa == [estado \in automato.estados |->
                    LET classe == CHOOSE c \in estados_equivalentes : estado \in c
                    IN  sorted(classe)[Cardinality(classe)]]
    IN  AutomatoFinito(mapa[automato.estado_inicial],
                       {mapa[estado] : estado \in automato.estados_finais},
                       automato.alfabeto,
                       {<<mapa[t[1]], t[2], mapa[t[3]]>> : t \in transicoes(automato)})

minimizar(self, sel) ==
    LET automato == descartar_estados_inuteis(self)
        estados_equivalentes == calcular_estados_equivalentes(automato, sel)
        mapa == [estado \in automato.estados |->
                    LET classe == CHOOSE c \in estados_equivalentes : estado \in c
                    IN  sorted(classe)[1]]
    IN  AutomatoFinito(mapa[automato.estado_inicial],
                       {mapa[estado] : estado \in automato.estados_finais},
                       automato.alfabeto,
                       {<<mapa[t[1]], t[2], mapa[t[3]]>> : t \in transicoes(automato)})

---------------------------------------------------------------------------
(* The language of an automaton: the words it accepts, & read for free *)

RECURSIVE fecho_de(_, _)
fecho_de(A, S) ==
    LET T == S \cup UNION {transicao(A, q, Epsilon) : q \in S}
    IN  IF T = S THEN S ELSE fecho_de(A, T)

RECURSIVE ler(_, _, _)
\* the states A can be in after reading w from the states S
ler(A, S, w) ==
    IF w = <<>> THEN fecho_de(A, S)
    ELSE ler(A, UNION {transicao(A, q, Head(w)) : q \in fecho_de(A, S)}, Tail(w))

aceita_de(A, q, w) == ler(A, {q}, w) \cap A.estados_finais # {}

aceita(A, w) == aceita_de(A, A.estado_inicial, w)

---------------------------------------------------------------------------
(* The automata the programs are given *)

MaxTransicoes == 3
MaxTransicoesAFD == 4
MaxPalavra == 3

Estados == {<<"A">>, <<"B">>, <<"A", "B">>}
Simbolos == {"a", "b"}

Palavras == UNION {[1..n -> Simbolos] : n \in 0..MaxPalavra}

RECURSIVE Subconjuntos(_, _)
\* the subsets of S of at most n elements
Subconjuntos(S, n) ==
    IF n = 0 THEN {{}}
    ELSE LET P == Subconjuntos(S, n - 1)
         IN  P \cup {T \cup {x} : T \in P, x \in S}

NenhumAutomato == AutomatoFinito(<<>>, {}, {}, {})

\* the variables of the other programs, which an automaton program has not
SemER ==
    /\ arvore = <<>> /\ entrada = <<>> /\ regex = <<>> /\ anotacao = <<>>
    /\ dfa_tuple = <<>> /\ saida = <<>>

\* the variables of the grammar programs, which the other programs have not
SemG == rules = <<>> /\ first = <<>> /\ follow = <<>> /\ table = <<>>

deterministico(A) ==
    \A chave \in DOMAIN A.mapa_transicoes :
        chave[2] # Epsilon /\ Cardinality(A.mapa_transicoes[chave]) = 1

\* determinizacao.py, minizacao.py: afnd = parse(codificacao)
InitAF ==
    /\ pc = "parse"
    /\ erro = ""
    /\ afd = NenhumAutomato
    /\ retorno = <<>> /\ particao = {} /\ vistas = {}
    /\ SemER
    /\ SemG
    /\ \E ts \in Subconjuntos(Estados \X (Simbolos \cup {Epsilon}) \X Estados,
                              MaxTransicoes),
          finais \in SUBSET Estados,
          alfabeto \in {Simbolos, Simbolos \cup {Epsilon}} :
            afnd = AutomatoFinito(<<"A">>, finais, alfabeto, ts)

\* the same, given deterministic automata only
InitAFD ==
    /\ pc = "parse"
    /\ erro = ""
    /\ afd = NenhumAutomato
    /\ retorno = <<>> /\ particao = {} /\ vistas = {}
    /\ SemER
    /\ SemG
    /\ \E ts \in Subconjuntos(Estados \X Simbolos \X Estados, MaxTransicoesAFD),
          finais \in SUBSET Estados,
          inicial \in Estados :
            /\ afnd = AutomatoFinito(inicial, finais, Simbolos, ts)
            /\ deterministico(afnd)

\* determinizacao.py: afd = afnd.determinizar()
Determinizar ==
    /\ pc = "parse"
    /\ pc' = "determinizar"
    /\ IF determinizar_falha(afnd)
       THEN erro' = "KeyError" /\ afd' = afd
       ELSE erro' = erro /\ afd' = determinizar(afnd)
    /\ UNCHANGED <<afnd, retorno, particao, vistas, vars_er, vars_g>>

\* minizacao.py: afd = afnd.minimizar()
Minimizar ==
    /\ pc = "parse"
    /\ pc' = "minimizar"
    /\ IF minimizar_falha(afnd)
       THEN erro' = "KeyError" /\ afd' = afd
       ELSE /\ erro' = erro
            /\ \E sel \in Selecoes(descartar_estados_inuteis(afnd)) :
                  afd' = minimizar(afnd, sel)
    /\ UNCHANGED <<afnd, retorno, particao, vistas, vars_er, vars_g>>

NextAF == Determinizar \/ Minimizar

SpecAF == InitAF /\ [][NextAF]_vars

SpecAFD == InitAFD /\ [][NextAF]_vars

---------------------------------------------------------------------------
(* Determinization *)

mesma_linguagem(A, B) == \A w \in Palavras : aceita(A, w) <=> aceita(B, w)

\* C1: whenever determinizar returns, the automaton it returns accepts
\* exactly the words the given automaton accepts, whatever the state labels
C1_DeterminizarPreservaLinguagem ==
    (pc = "determinizar" /\ erro = "") => mesma_linguagem(afnd, afd)

\* C2: two sets of states of the given automaton get the same label from
\* unir_estados only when they are the same set
C2_RotuloCanonico ==
    (pc = "determinizar" /\ erro = "") =>
        \A S, T \in SUBSET afnd.estados :
            (S = T) <=> (unir_estados(S) = unir_estados(T))

---------------------------------------------------------------------------
(* Minimization *)

\* the states of A that some word reaches from the initial state and from
\* which some word is accepted
uteis(A) ==
    {q \in A.estados :
        /\ \E w \in Palavras : q \in ler(A, {A.estado_inicial}, w)
        /\ \E w \in Palavras : aceita_de(A, q, w)}

mesma_linguagem_de(A, p, B, q) ==
    \A w \in Palavras : aceita_de(A, p, w) <=> aceita_de(B, q, w)

\* C3: minimizar of a deterministic automaton whose initial state is in a
\* transition returns an automaton, and it accepts the same words
C3_MinimizarPreservaLinguagem ==
    (pc = "minimizar" /\ deterministico(afnd)
        /\ afnd.estado_inicial \in afnd.estados) =>
        (erro = "" /\ mesma_linguagem(afnd, afd))

\* C4: the automaton minimizar returns for a deterministic automaton has no
\* two states with the same language, all its states are reachable and
\* productive, and each is the smallest label, in str order, of the useful
\* states of the given automaton that have its language
C4_Minimo ==
    (pc = "minimizar" /\ erro = "" /\ deterministico(afnd)) =>
        /\ \A p, q \in afd.estados :
              p # q => ~mesma_linguagem_de(afd, p, afd, q)
        /\ uteis(afd) = afd.estados
        /\ \A m \in afd.estados :
              LET classe == {q \in uteis(afnd) :
                               mesma_linguagem_de(afnd, q, afd, m)}
              IN  m \in classe /\ \A q \in classe \ {m} : StrLess(m, q)

\* C4 witness: minimizar merged two useful states into one that is not
\* the only state left
C4_Testemunha ==
    /\ pc = "minimizar" /\ erro = "" /\ deterministico(afnd)
    /\ Cardinality(afd.estados) = 2
    /\ Cardinality(uteis(afnd)) = 3

\* C5: the automaton minimizar returns is deterministic and accepts the
\* words the given automaton accepts, also when that one is not deterministic
C5_MinimizarDeterminiza ==
    (pc = "minimizar" /\ erro = "") =>
        (deterministico(afd) /\ mesma_linguagem(afnd, afd))

---------------------------------------------------------------------------
(* src/exercicio2/er.py: the syntax tree and its parser *)

LeafNode(v) ==
    [tipo |-> "LeafNode", nullable |-> None, firstpos |-> {}, lastpos |-> {},
     value |-> v]

CatNode(l, r) ==
    [tipo |-> "CatNode", nullable |-> None, firstpos |-> {}, lastpos |-> {},
     left |-> l, right |-> r]

OrNode(l, r) ==
    [tipo |-> "OrNode", nullable |-> None, firstpos |-> {}, lastpos |-> {},
     left |-> l, right |-> r]

StarNode(c) ==
    [tipo |-> "StarNode", nullable |-> None, firstpos |-> {}, lastpos |-> {},
     child |-> c]

\* Reader: the text and reader.pos, which counts from 0
end(texto, pos) == pos >= Len(texto)

advance(texto, pos) == IF end(texto, pos) THEN pos ELSE pos + 1

RECURSIVE peek(_, _)
\* the next character that is no blank, and reader.pos moved to it
peek(texto, pos) ==
    IF end(texto, pos) THEN [ch |-> None, pos |-> pos]
    ELSE LET ch == texto[pos + 1]
         IN  IF ch \in {"\n", " "} THEN peek(texto, advance(texto, pos))
             ELSE [ch |-> ch, pos |-> pos]

read(texto, pos) ==
    LET p == peek(texto, pos)
    IN  [ch |-> p.ch, pos |-> advance(texto, p.pos)]

RECURSIVE parse_alternative(_, _)
RECURSIVE parse_alternative_laco(_, _, _)
RECURSIVE parse_sequence(_, _)
RECURSIVE parse_sequence_laco(_, _, _)
RECURSIVE parse_term(_, _)
RECURSIVE parse_term_laco(_, _, _)
RECURSIVE parse_factor(_, _)

parse_factor(texto, pos) ==
    LET p == peek(texto, pos)
    IN  IF p.ch = "("
        THEN LET r == parse_alternative(texto, advance(texto, p.pos))
             IN  [node |-> r.node, pos |-> advance(texto, r.pos)]
        ELSE LET r == read(texto, pos)
             IN  IF r.ch = "&" THEN [node |-> LeafNode(""), pos |-> r.pos]
                 ELSE [node |-> LeafNode(IF r.ch # None THEN r.ch ELSE ""),
                       pos |-> r.pos]

\* while reader.peek() == "*"
parse_term_laco(texto, node, pos) ==
    LET p == peek(texto, pos)
    IN  IF p.ch = "*"
        THEN parse_term_laco(texto, StarNode(node), advance(texto, p.pos))
        ELSE [node |-> node, pos |-> p.pos]

parse_term(texto, pos) ==
    LET r == parse_factor(texto, pos)
    IN  parse_term_laco(texto, r.node, r.pos)

\* while not reader.end and reader.peek() not in (")", "|")
parse_sequence_laco(texto, terms, pos) ==
    IF end(texto, pos) THEN [terms |-> terms, pos |-> pos]
    ELSE LET p == peek(texto, pos)
         IN  IF p.ch \in {")", "|"} THEN [terms |-> terms, pos |-> p.pos]
             ELSE LET r == parse_term(texto, p.pos)
                  IN  parse_sequence_laco(texto, Append(terms, r.node), r.pos)

RECURSIVE encadear(_, _)
\* for other in terms: node = CatNode(left=node, right=other)
encadear(node, terms) ==
    IF terms = <<>> THEN node
    ELSE encadear(CatNode(node, Head(terms)), Tail(terms))

parse_sequence(texto, pos) ==
    LET r == parse_sequence_laco(texto, <<>>, pos)
    IN  [node |-> IF r.terms = <<>> THEN LeafNode("")
                  ELSE IF Len(r.terms) = 1 THEN r.terms[1]
                  ELSE encadear(Head(r.terms), Tail(r.terms)),
         pos |-> r.pos]

\* while reader.peek() == "|"
parse_alternative_laco(texto, node, pos) ==
    LET p == peek(texto, pos)
    IN  IF p.ch = "|"
        THEN LET r == parse_sequence(texto, advance(texto, p.pos))
             IN  parse_alternative_laco(texto, OrNode(node, r.node), r.pos)
        ELSE [node |-> node, pos |-> p.pos]

parse_alternative(texto, pos) ==
    LET r == parse_sequence(texto, pos)
    IN  parse_alternative_laco(texto, r.node, r.pos)

parse_regex(texto) == parse_alternative(texto, 0).node

---------------------------------------------------------------------------
(* src/exercicio2/er.py: nullable, firstpos, lastpos and followpos *)

\* AnnotationAccumulator()
AnnotationAccumulator == [pos |-> 0, followpos |-> <<>>]

\* for i in chaves: followpos.setdefault(i, set()).update(posicoes)
followpos_update(followpos, chaves, posicoes) ==
    [i \in DOMAIN followpos \cup chaves |->
        (IF i \in DOMAIN followpos THEN followpos[i] ELSE {})
            \cup (IF i \in chaves THEN posicoes ELSE {})]

RECURSIVE visit_node(_, _)

visit_leaf(node, acc) ==
    IF node.value = ""
    THEN [node |-> [node EXCEPT !.nullable = TRUE, !.firstpos = {},
                                !.lastpos = {}],
          acc  |-> acc]
    ELSE LET pos == acc.pos + 1
         IN  [node |-> [node EXCEPT !.nullable = FALSE, !.firstpos = {pos},
                                    !.lastpos = {pos}],
              acc  |-> [acc EXCEPT !.pos = pos]]

\* visit_star without the followpos of the repetition
visit_star_sem_followpos(node, acc) ==
    LET child == visit_node(node.child, acc)
    IN  [node |-> [node EXCEPT !.child = child.node, !.nullable = TRUE,
                               !.firstpos = child.node.firstpos,
                               !.lastpos = child.node.lastpos],
         acc  |-> child.acc]

visit_star(node, acc) ==
    LET child    == visit_node(node.child, acc)
        firstpos == child.node.firstpos
        lastpos  == child.node.lastpos
    IN  [node |-> [node EXCEPT !.child = child.node, !.nullable = TRUE,
                               !.firstpos = firstpos, !.lastpos = lastpos],
         acc  |-> [child.acc EXCEPT
                      !.followpos = followpos_update(@, lastpos, firstpos)]]

visit_or(node, acc) ==
    LET left  == visit_node(node.left, acc)
        right == visit_node(node.right, left.acc)
    IN  [node |-> [node EXCEPT
                      !.left = left.node, !.right = right.node,
                      !.nullable = left.node.nullable \/ right.node.nullable,
                      !.firstpos = left.node.firstpos \cup right.node.firstpos,
                      !.lastpos = left.node.lastpos \cup right.node.lastpos],
         acc  |-> right.acc]

visit_cat(node, acc) ==
    LET left  == visit_node(node.left, acc)
        right == visit_node(node.right, left.acc)
    IN  [node |-> [node EXCEPT
                      !.left = left.node, !.right = right.node,
                      !.nullable = left.node.nullable /\ right.node.nullable,
                      !.firstpos = IF left.node.nullable
                                   THEN left.node.firstpos \cup right.node.firstpos
                                   ELSE left.node.firstpos,
                      !.lastpos = IF right.node.nullable
                                  THEN left.node.lastpos \cup right.node.lastpos
                                  ELSE right.node.lastpos],
         acc  |-> [right.acc EXCEPT
                      !.followpos = followpos_update(@, left.node.lastpos,
                                                     right.node.firstpos)]]

visit_node(node, acc) ==
    CASE node.tipo = "LeafNode" -> visit_leaf(node, acc)
      [] node.tipo = "StarNode" -> visit_star(node, acc)
      [] node.tipo = "OrNode"   -> visit_or(node, acc)
      [] node.tipo = "CatNode"  -> visit_cat(node, acc)

annotate_tree(root) ==
    LET r == visit_node(root, AnnotationAccumulator)
    IN  [annotated_tree |-> r.node, followpos |-> r.acc.followpos]

---------------------------------------------------------------------------
(* src/exercicio2/er.py: the automaton *)

Range(lista) == {lista[k] : k \in DOMAIN lista}

RECURSIVE get_leafs(_)
get_leafs(node) ==
    CASE node.tipo = "LeafNode" ->
            IF node.value # "" THEN <<node>> ELSE <<>>
      [] node.tipo \in {"OrNode", "CatNode"} ->
            get_leafs(node.left) \o get_leafs(node.right)
      [] node.tipo = "StarNode" -> get_leafs(node.child)

\* {i: node.value for node in leafs for i in node.firstpos}
symbol_map_de(leafs) ==
    [i \in UNION {leafs[k].firstpos : k \in DOMAIN leafs} |->
        leafs[CHOOSE k \in DOMAIN leafs : i \in leafs[k].firstpos].value]

RECURSIVE sorted_simbolos(_)
\* one-character strings in increasing order
sorted_simbolos(S) ==
    IF S = {} THEN <<>>
    ELSE LET m == CHOOSE x \in S : \A y \in S : ord[x] <= ord[y]
         IN  <<m>> \o sorted_simbolos(S \ {m})

\* followpos.get(i, frozenset())
followpos_get(followpos, i) ==
    IF i \in DOMAIN followpos THEN followpos[i] ELSE {}

\* the dict destinations of one state, as the list of its items: a symbol
\* enters when it first has a destination, and the positions are visited
\* sorted by symbol, so the symbols enter in increasing order
destinations_de(symbol_map, followpos, state) ==
    LET dest(symbol) ==
            UNION {followpos_get(followpos, i) :
                     i \in {j \in state : symbol_map[j] = symbol}}
        simbolos == {symbol \in {symbol_map[i] : i \in state} :
                        dest(symbol) # {}}
        ordem == sorted_simbolos(simbolos)
    IN  [k \in 1..Len(ordem) |-> <<ordem[k], dest(ordem[k])>>]

RECURSIVE extend_novos(_, _)
\* states.extend(s for s in lista if s not in states): the test sees what
\* the extend has appended
extend_novos(states, lista) ==
    IF lista = <<>> THEN states
    ELSE IF Head(lista) \in Range(states)
         THEN extend_novos(states, Tail(lista))
         ELSE extend_novos(Append(states, Head(lista)), Tail(lista))

RECURSIVE generate_laco(_, _, _, _, _)
\* while remaining
generate_laco(symbol_map, followpos, states, remaining, transitions) ==
    IF remaining = <<>> THEN [states |-> states, transitions |-> transitions]
    ELSE LET state == Head(remaining)
             destinations == destinations_de(symbol_map, followpos, state)
             state_transitions ==
                 [k \in 1..Len(destinations) |->
                     <<state, destinations[k][1], destinations[k][2]>>]
             values == [k \in 1..Len(destinations) |-> destinations[k][2]]
             novo(s) == s \notin Range(states)
         IN  generate_laco(symbol_map, followpos,
                           extend_novos(states, values),
                           Tail(remaining) \o SelectSeq(values, novo),
                           transitions \o state_transitions)

\* str(n) of a position
str(n) ==
    LET digito(d) == CASE d = 0 -> "0" [] d = 1 -> "1" [] d = 2 -> "2"
                       [] d = 3 -> "3" [] d = 4 -> "4" [] d = 5 -> "5"
                       [] d = 6 -> "6" [] d = 7 -> "7" [] d = 8 -> "8"
                       [] d = 9 -> "9"
    IN  IF n < 10 THEN <<digito(n)>>
        ELSE <<digito(n \div 10), digito(n % 10)>>

RECURSIVE join_com(_, _)
\* sep.join(lista)
join_com(sep, lista) ==
    IF lista = <<>> THEN <<>>
    ELSE IF Len(lista) = 1 THEN Head(lista)
    ELSE Head(lista) \o sep \o join_com(sep, Tail(lista))

RECURSIVE sorted_int(_)
sorted_int(S) ==
    IF S = {} THEN <<>>
    ELSE LET m == CHOOSE x \in S : \A y \in S : x <= y
         IN  <<m>> \o sorted_int(S \ {m})

\* "{" + ",".join(str(n) for n in sorted(state)) + "}"
format(state) ==
    LET ordem == sorted_int(state)
    IN  <<"{">> \o join_com(<<",">>, [k \in 1..Len(ordem) |-> str(ordem[k])])
            \o <<"}">>

generate_automaton(annotated_tree, followpos) ==
    LET leafs      == get_leafs(annotated_tree)
        symbol_map == symbol_map_de(leafs)
        initial    == annotated_tree.firstpos
        r          == generate_laco(symbol_map, followpos, <<initial>>,
                                    <<initial>>, <<>>)
        final_i    == CHOOSE i \in leafs[Len(leafs)].lastpos : TRUE
        tem_final(state) == final_i \in state
        finals     == SelectSeq(r.states, tem_final)
    IN  [states      |-> [k \in 1..Len(r.states) |-> format(r.states[k])],
         alphabet    |-> {r.transitions[k][2] : k \in DOMAIN r.transitions},
         initial     |-> format(initial),
         finals      |-> [k \in 1..Len(finals) |-> format(finals[k])],
         transitions |-> [k \in 1..Len(r.transitions) |->
                             <<format(r.transitions[k][1]),
                               r.transitions[k][2],
                               format(r.transitions[k][3])>>]]

serialize(dfa) ==
    LET finals_str == <<"{">> \o join_com(<<",">>, dfa.finals) \o <<"}">>
        ordem      == sorted_simbolos(dfa.alphabet)
        alfabeto   == <<"{">>
                        \o join_com(<<",">>, [k \in 1..Len(ordem) |-> <<ordem[k]>>])
                        \o <<"}">>
        transitions_str ==
            join_com(<<";">>,
                     [k \in 1..Len(dfa.transitions) |->
                         dfa.transitions[k][1] \o <<",", dfa.transitions[k][2], ",">>
                             \o dfa.transitions[k][3]])
    IN  str(Len(dfa.states)) \o <<";">> \o dfa.initial \o <<";">> \o finals_str
            \o <<";">> \o alfabeto \o <<";">> \o transitions_str


---------------------------------------------------------------------------
(* The regular expressions the compiler is given *)

MaxOperadores == 2

Folhas == {"a", "b", ""}

RECURSIVE ArvoresCom(_)
\* the syntax trees with exactly n operators
ArvoresCom(n) ==
    IF n = 0 THEN {LeafNode(v) : v \in Folhas}
    ELSE {StarNode(c) : c \in ArvoresCom(n - 1)}
         \cup UNION {{CatNode(l, r) : l \in ArvoresCom(i),
                                       r \in ArvoresCom(n - 1 - i)} :
                       i \in 0..(n - 1)}
         \cup UNION {{OrNode(l, r) : l \in ArvoresCom(i),
                                      r \in ArvoresCom(n - 1 - i)} :
                       i \in 0..(n - 1)}

\* (a|b)*abb
Exemplo ==
    CatNode(CatNode(CatNode(StarNode(OrNode(LeafNode("a"), LeafNode("b"))),
                            LeafNode("a")),
                    LeafNode("b")),
            LeafNode("b"))

Arvores == UNION {ArvoresCom(n) : n \in 0..MaxOperadores} \cup {Exemplo}

RECURSIVE escrever(_)
\* the text of a syntax tree, with the parentheses the grammar of
\* parse_regex needs: * binds more than concatenation, which binds more
\* than |, and both group to the left
escrever(t) ==
    LET p(x) == <<"(">> \o escrever(x) \o <<")">>
    IN  CASE t.tipo = "LeafNode" ->
                IF t.value = "" THEN <<"&">> ELSE <<t.value>>
          [] t.tipo = "StarNode" ->
                (IF t.child.tipo \in {"LeafNode", "StarNode"}
                 THEN escrever(t.child) ELSE p(t.child)) \o <<"*">>
          [] t.tipo = "CatNode" ->
                (IF t.left.tipo = "OrNode" THEN p(t.left) ELSE escrever(t.left))
                \o (IF t.right.tipo \in {"OrNode", "CatNode"}
                    THEN p(t.right) ELSE escrever(t.right))
          [] t.tipo = "OrNode" ->
                escrever(t.left) \o <<"|">>
                \o (IF t.right.tipo = "OrNode"
                    THEN p(t.right) ELSE escrever(t.right))

RECURSIVE casa(_, _)
\* the regular expression t matches the word w
casa(t, w) ==
    CASE t.tipo = "LeafNode" ->
            IF t.value = "" THEN w = <<>> ELSE w = <<t.value>>
      [] t.tipo = "OrNode" -> casa(t.left, w) \/ casa(t.right, w)
      [] t.tipo = "CatNode" ->
            \E k \in 0..Len(w) :
                /\ casa(t.left, SubSeq(w, 1, k))
                /\ casa(t.right, SubSeq(w, k + 1, Len(w)))
      [] t.tipo = "StarNode" ->
            \/ w = <<>>
            \/ \E k \in 1..Len(w) :
                  /\ casa(t.child, SubSeq(w, 1, k))
                  /\ casa(t, SubSeq(w, k + 1, Len(w)))

RECURSIVE executar(_, _, _)
\* the states the automaton of a tuple is in after reading w from S
executar(dfa, S, w) ==
    IF w = <<>> THEN S
    ELSE executar(dfa,
                  {t[3] : t \in {u \in Range(dfa.transitions) :
                                   u[1] \in S /\ u[2] = Head(w)}},
                  Tail(w))

aceita_tupla(dfa, w) ==
    executar(dfa, {dfa.initial}, w) \cap Range(dfa.finals) # {}

SemAF ==
    /\ afnd = NenhumAutomato /\ afd = NenhumAutomato
    /\ retorno = <<>> /\ particao = {} /\ vistas = {}

\* exercicio2/er.py: entrada = input()
InitER ==
    /\ pc = "input"
    /\ erro = ""
    /\ SemAF
    /\ SemG
    /\ regex = <<>>
    /\ anotacao = <<>>
    /\ dfa_tuple = <<>>
    /\ saida = <<>>
    /\ \E t \in Arvores : arvore = t /\ entrada = escrever(t)

\* convert_regex: node = parse_regex(value), then
\* node = CatNode(left=node, right=LeafNode(value="#"))
ParseRegex ==
    /\ pc = "input"
    /\ pc' = "parse_regex"
    /\ regex' = CatNode(parse_regex(entrada), LeafNode("#"))
    /\ UNCHANGED <<erro, arvore, entrada, anotacao, dfa_tuple, saida, vars_af, vars_g>>

\* convert_regex: annotated_tree, followpos = annotate_tree(node)
AnnotateTree ==
    /\ pc = "parse_regex"
    /\ pc' = "annotate_tree"
    /\ anotacao' = annotate_tree(regex)
    /\ UNCHANGED <<erro, arvore, entrada, regex, dfa_tuple, saida, vars_af, vars_g>>

\* convert_regex: dfa_tuple = generate_automaton(annotated_tree, followpos)
GenerateAutomaton ==
    /\ pc = "annotate_tree"
    /\ pc' = "generate_automaton"
    /\ dfa_tuple' = generate_automaton(anotacao.annotated_tree,
                                       anotacao.followpos)
    /\ UNCHANGED <<erro, arvore, entrada, regex, anotacao, saida, vars_af, vars_g>>

\* convert_regex: return serialize(dfa_tuple), which the program prints
Serialize ==
    /\ pc = "generate_automaton"
    /\ pc' = "convert_regex"
    /\ saida' = serialize(dfa_tuple)
    /\ UNCHANGED <<erro, arvore, entrada, regex, anotacao, dfa_tuple, vars_af, vars_g>>

NextER == ParseRegex \/ AnnotateTree \/ GenerateAutomaton \/ Serialize

SpecER == InitER /\ [][NextER]_vars

\* the position annotate_tree gives the appended '#' leaf
posicao_final(t) == Len(get_leafs(t)) + 1

\* C6: the automaton convert_regex builds accepts exactly the words the
\* regular expression matches, and its final states are exactly its states
\* that contain the position of '#'; for (a|b)*abb it has 4 states, one of
\* them final, the one it is in after abb
C6_RegexParaAFD ==
    pc \in {"generate_automaton", "convert_regex"} =>
        /\ \A w \in Palavras : aceita_tupla(dfa_tuple, w) <=> casa(arvore, w)
        /\ \A S \in SUBSET (1..posicao_final(arvore)) :
              format(S) \in Range(dfa_tuple.states) =>
                  (format(S) \in Range(dfa_tuple.finals)
                      <=> posicao_final(arvore) \in S)
        /\ Range(dfa_tuple.finals) \subseteq Range(dfa_tuple.states)
        /\ arvore = Exemplo =>
              /\ Len(dfa_tuple.states) = 4
              /\ Len(dfa_tuple.finals) = 1
              /\ executar(dfa_tuple, {dfa_tuple.initial}, <<"a", "b", "b">>)
                    = Range(dfa_tuple.finals)

\* C6 witness: convert_regex has compiled (a|b)*abb
C6_Testemunha ==
    /\ pc = "convert_regex"
    /\ entrada = <<"(", "a", "|", "b", ")", "*", "a", "b", "b">>
    /\ Len(dfa_tuple.states) = 4

---------------------------------------------------------------------------
(* src/exercicio3/main.py and src/exercicio4/main.py: grammars. A rule is
   <<head, body>>, the head a character and the body a str. The two programs
   name their methods alike: e3_ is exercicio3, e4_ is exercicio4. *)

\* not symbol.isupper()
is_terminal(symbol) == ord[symbol] \notin 65..90

\* the frames a recursion may nest before Python raises RecursionError
RecursionLimit == 8

\* what a method call gives: the set it returns, or the exception it raises
Retorno(valor) == [erro |-> "", valor |-> valor]
Levanta(excecao) == [erro |-> excecao, valor |-> {}]

\* the keys of rule_map, in the order setdefault inserted them
chaves(regras) ==
    LET primeiras == {k \in DOMAIN regras :
                         \A j \in 1..(k - 1) : regras[j][1] # regras[k][1]}
        ordem     == sorted_int(primeiras)
    IN  [n \in DOMAIN ordem |-> regras[ordem[n]][1]]

\* exercicio3: rule_map holds a set of bodies for each head
e3_Grammar(regras) ==
    [rule_map |-> [head \in Range(chaves(regras)) |->
                      {regras[k][2] :
                          k \in {k \in DOMAIN regras : regras[k][1] = head}}],
     initial  |-> regras[1][1]]

e3_nonterminals(self) ==
    DOMAIN self.rule_map
        \cup UNION {{s \in Range(sequence) : ~is_terminal(s)} :
                       sequence \in UNION {self.rule_map[head] :
                                              head \in DOMAIN self.rule_map}}

e3_rules(self) ==
    UNION {{<<head, sequence>> : sequence \in self.rule_map[head]} :
              head \in DOMAIN self.rule_map}

e3_get_body(self, non_terminal) ==
    IF non_terminal \in DOMAIN self.rule_map
    THEN self.rule_map[non_terminal] ELSE {}

RECURSIVE e3_get_first(_, _, _)
\* get_first(sequence) with n frames left: the loop over the symbols goes on
\* in the same frame, the call for a body takes one
e3_get_first(self, sequence, n) ==
    IF n = 0 THEN Levanta("RecursionError")
    ELSE IF sequence = <<>> THEN Retorno({})
    ELSE LET symbol == Head(sequence)
             bodies == e3_get_body(self, symbol)
             symbol_first_set ==
                 IF is_terminal(symbol) THEN Retorno({symbol})
                 ELSE IF \E body \in bodies :
                            e3_get_first(self, body, n - 1).erro # ""
                      THEN Levanta("RecursionError")
                      ELSE Retorno(UNION {e3_get_first(self, body, n - 1).valor :
                                              body \in bodies})
         IN  IF symbol_first_set.erro # "" THEN symbol_first_set
             ELSE IF "&" \notin symbol_first_set.valor THEN symbol_first_set
             ELSE LET resto == e3_get_first(self, Tail(sequence), n)
                  IN  IF resto.erro # "" THEN resto
                      ELSE Retorno(symbol_first_set.valor \cup resto.valor)

\* the places <<head, sequence, i>> where non_terminal stands in a body
e3_ocorrencias(self, non_terminal) ==
    UNION {{<<r[1], r[2], i>> :
                i \in {i \in DOMAIN r[2] : r[2][i] = non_terminal}} :
              r \in e3_rules(self)}

RECURSIVE e3_get_follow(_, _, _, _)
e3_get_follow(self, non_terminal, search_stack, n) ==
    IF n = 0 THEN Levanta("RecursionError")
    ELSE
    LET rightside(o) == SubSeq(o[2], o[3] + 1, Len(o[2]))
        parcela(o) ==
            LET rightside_first == e3_get_first(self, rightside(o), n - 1)
            IN  IF rightside_first.erro # "" THEN rightside_first
                ELSE IF (rightside(o) = <<>> \/ "&" \in rightside_first.valor)
                        /\ o[1] \notin Range(search_stack)
                THEN LET de_head == e3_get_follow(self, o[1],
                                        Append(search_stack, o[1]), n - 1)
                     IN  IF de_head.erro # "" THEN de_head
                         ELSE Retorno(rightside_first.valor \cup de_head.valor)
                ELSE Retorno(rightside_first.valor)
        ocorrencias == e3_ocorrencias(self, non_terminal)
    IN  IF \E o \in ocorrencias : parcela(o).erro # ""
        THEN Levanta("RecursionError")
        ELSE Retorno(((IF non_terminal = self.initial THEN {"$"} ELSE {})
                        \cup UNION {parcela(o).valor : o \in ocorrencias})
                     \ {"&"})

\* exercicio4: rule_map holds the list of bodies of each head, and keeps the
\* heads in the order they came
e4_Grammar(regras) ==
    [rule_map |-> [head \in Range(chaves(regras)) |->
                      LET dele == SelectSeq(regras, LAMBDA r : r[1] = head)
                      IN  [k \in DOMAIN dele |-> dele[k][2]]],
     keys     |-> chaves(regras),
     initial  |-> regras[1][1]]

RECURSIVE e4_rules_de(_, _)
e4_rules_de(self, keys) ==
    IF keys = <<>> THEN <<>>
    ELSE LET body == self.rule_map[Head(keys)]
         IN  [k \in DOMAIN body |-> <<Head(keys), body[k]>>]
                 \o e4_rules_de(self, Tail(keys))

e4_rules(self) == e4_rules_de(self, self.keys)

RECURSIVE e4_acrescentar(_, _)
\* symbols.append(s) for each s of the list that symbols has not yet
e4_acrescentar(symbols, lista) ==
    IF lista = <<>> THEN symbols
    ELSE e4_acrescentar(IF Head(lista) \in Range(symbols) THEN symbols
                        ELSE Append(symbols, Head(lista)),
                        Tail(lista))

e4_nonterminals(self) ==
    LET rs == e4_rules(self)
    IN  e4_acrescentar(self.keys,
            SelectSeq(join([k \in DOMAIN rs |-> rs[k][2]]),
                      LAMBDA s : ~is_terminal(s)))

e4_get_body(self, non_terminal) ==
    IF non_terminal \in DOMAIN self.rule_map
    THEN self.rule_map[non_terminal] ELSE <<>>

RECURSIVE e4_get_first(_, _, _)
e4_get_first(self, sequence, search_stack) ==
    IF sequence = <<>> THEN {}
    ELSE LET symbol == Head(sequence)
             bodies == e4_get_body(self, symbol)
             symbol_first_set ==
                 IF is_terminal(symbol) THEN {symbol}
                 ELSE UNION {e4_get_first(self, bodies[k],
                                 <<bodies[k][1]>> \o search_stack) :
                             k \in {k \in DOMAIN bodies :
                                       bodies[k][1] \notin Range(search_stack)}}
         IN  IF "&" \notin symbol_first_set THEN symbol_first_set
             ELSE symbol_first_set
                      \cup e4_get_first(self, Tail(sequence), search_stack)

RECURSIVE e4_get_follow(_, _, _)
e4_get_follow(self, non_terminal, search_stack) ==
    LET rs == e4_rules(self)
        ocorrencias ==
            UNION {{<<k, i>> : i \in {i \in DOMAIN rs[k][2] :
                                         rs[k][2][i] = non_terminal}} :
                      k \in DOMAIN rs}
        head(o) == rs[o[1]][1]
        rightside(o) == SubSeq(rs[o[1]][2], o[2] + 1, Len(rs[o[1]][2]))
        parcela(o) ==
            LET rightside_first == e4_get_first(self, rightside(o), <<>>)
            IN  rightside_first
                \cup (IF (rightside(o) = <<>> \/ "&" \in rightside_first)
                         /\ head(o) \notin Range(search_stack)
                      THEN e4_get_follow(self, head(o),
                                         Append(search_stack, head(o)))
                      ELSE {})
    IN  ((IF non_terminal = self.initial THEN {"$"} ELSE {})
            \cup UNION {parcela(o) : o \in ocorrencias}) \ {"&"}

RECURSIVE e4_ciclo_no_corpo(_, _, _, _, _)
\* the loop over the symbols of one body, from its i-th: the cycle it
\* returns, if it does, and the stacks it appended
e4_ciclo_no_corpo(self, nonterminal_stack, body, i, stacks) ==
    IF i > Len(body) \/ is_terminal(body[i])
    THEN [cycle |-> <<>>, stacks |-> stacks]
    ELSE IF body[i] \in Range(nonterminal_stack)
    THEN [cycle |-> Append(nonterminal_stack, body[i]), stacks |-> stacks]
    ELSE LET next_stack == Append(nonterminal_stack, body[i])
         IN  IF "&" \notin e4_get_first(self, <<body[i]>>, <<>>)
             THEN [cycle |-> <<>>, stacks |-> Append(stacks, next_stack)]
             ELSE e4_ciclo_no_corpo(self, nonterminal_stack, body, i + 1,
                                    Append(stacks, next_stack))

RECURSIVE e4_ciclo_nos_corpos(_, _, _, _, _)
\* the loop over the bodies of the head on top of the stack
e4_ciclo_nos_corpos(self, nonterminal_stack, bodies, k, stacks) ==
    IF k > Len(bodies) THEN [cycle |-> <<>>, stacks |-> stacks]
    ELSE LET r == e4_ciclo_no_corpo(self, nonterminal_stack, bodies[k], 1,
                                    stacks)
         IN  IF r.cycle # <<>> THEN r
             ELSE e4_ciclo_nos_corpos(self, nonterminal_stack, bodies, k + 1,
                                      r.stacks)

RECURSIVE e4_ciclo_laco(_, _)
\* while stacks: the cycle found, or <<>> for False
e4_ciclo_laco(self, stacks) ==
    IF stacks = <<>> THEN <<>>
    ELSE LET nonterminal_stack == stacks[Len(stacks)]
             head == nonterminal_stack[Len(nonterminal_stack)]
             r == e4_ciclo_nos_corpos(self, nonterminal_stack,
                      e4_get_body(self, head), 1,
                      SubSeq(stacks, 1, Len(stacks) - 1))
         IN  IF r.cycle # <<>> THEN r.cycle ELSE e4_ciclo_laco(self, r.stacks)

get_left_recursive_cycle(self) == e4_ciclo_laco(self, <<<<self.initial>>>>)

\* the first head and two bodies of it that share a first symbol, or <<>>
\* for None
get_left_ambiguity(self) ==
    LET nts == e4_nonterminals(self)
        bodies(h) == e4_get_body(self, nts[h])
        comuns(h, i, j) ==
            (e4_get_first(self, bodies(h)[i], <<>>)
                \cap e4_get_first(self, bodies(h)[j], <<>>)) \ {"&"}
        achados ==
            UNION {{<<h, p[1], p[2]>> :
                        p \in {p \in (DOMAIN bodies(h)) \X (DOMAIN bodies(h)) :
                                  p[1] < p[2] /\ comuns(h, p[1], p[2]) # {}}} :
                      h \in DOMAIN nts}
        antes(t, u) == \/ t[1] < u[1]
                       \/ t[1] = u[1] /\ t[2] < u[2]
                       \/ t[1] = u[1] /\ t[2] = u[2] /\ t[3] <= u[3]
    IN  IF achados = {} THEN <<>>
        ELSE LET t == CHOOSE t \in achados : \A u \in achados : antes(t, u)
             IN  <<nts[t[1]], <<bodies(t[1])[t[2]], bodies(t[1])[t[3]]>>,
                   comuns(t[1], t[2], t[3])>>

\* the symbols under which the loop writes the i-th rule into the table
ll_symbols(self, i) ==
    LET rs == e4_rules(self)
        fs == e4_get_first(self, rs[i][2], <<>>)
    IN  IF "&" \in fs
        THEN (fs \cup e4_get_follow(self, rs[i][1], <<>>)) \ {"&"}
        ELSE fs

\* the dict the loop over the rules fills: a later rule overwrites an entry
ll_table(self) ==
    LET rs == e4_rules(self)
        symbols(i) == ll_symbols(self, i)
        entradas == UNION {{<<rs[i][1], s>> : s \in symbols(i)} : i \in DOMAIN rs}
    IN  [e \in entradas |->
            CHOOSE i \in DOMAIN rs :
                /\ rs[i][1] = e[1] /\ e[2] \in symbols(i)
                /\ \A j \in DOMAIN rs :
                      rs[j][1] = e[1] /\ e[2] \in symbols(j) => j <= i]

\* generate_ll_table: the GrammarException it raises, or the table
generate_ll_table(self) ==
    LET cycle == get_left_recursive_cycle(self)
        ambiguity == get_left_ambiguity(self)
    IN  IF cycle # <<>>
        THEN [exc |-> "Gramatica recursiva a esquerda", cycle |-> cycle,
              ambiguity |-> <<>>, table |-> <<>>]
        ELSE IF ambiguity # <<>>
        THEN [exc |-> "Gramatica nao fatorada", cycle |-> <<>>,
              ambiguity |-> ambiguity, table |-> <<>>]
        ELSE [exc |-> "", cycle |-> <<>>, ambiguity |-> <<>>,
              table |-> ll_table(self)]

---------------------------------------------------------------------------
(* What the grammar claims speak of: nullable nonterminals, FIRST, FOLLOW and
   left recursion, each the least fixed point of its textbook definition. '&'
   stands for the empty string. *)

\* the nonterminals of a rule list
NaoTerminais(regras) ==
    {regras[k][1] : k \in DOMAIN regras}
        \cup UNION {{s \in Range(regras[k][2]) : ~is_terminal(s)} :
                       k \in DOMAIN regras}

\* the sequence derives the empty string, N being the nullable nonterminals
anulavel(N, sequence) == \A i \in DOMAIN sequence : sequence[i] \in N \cup {"&"}

RECURSIVE anulaveis(_, _)
anulaveis(regras, N) ==
    LET mais == N \cup {regras[k][1] :
                           k \in {k \in DOMAIN regras : anulavel(N, regras[k][2])}}
    IN  IF mais = N THEN N ELSE anulaveis(regras, mais)

Anulaveis(regras) == anulaveis(regras, {})

RECURSIVE primeiros_de(_, _, _)
\* the terminals a sequence can begin with, F giving those of the nonterminals
primeiros_de(F, N, sequence) ==
    IF sequence = <<>> THEN {}
    ELSE LET s == Head(sequence)
         IN  IF s = "&" THEN primeiros_de(F, N, Tail(sequence))
             ELSE IF is_terminal(s) THEN {s}
             ELSE F[s] \cup (IF s \in N THEN primeiros_de(F, N, Tail(sequence))
                             ELSE {})

RECURSIVE primeiros(_, _, _)
primeiros(regras, N, F) ==
    LET mais == [X \in DOMAIN F |->
                    F[X] \cup UNION {primeiros_de(F, N, regras[k][2]) :
                                        k \in {k \in DOMAIN regras :
                                                  regras[k][1] = X}}]
    IN  IF mais = F THEN F ELSE primeiros(regras, N, mais)

\* FIRST of every nonterminal, '&' included for the nullable ones
FIRST(regras) ==
    LET N == Anulaveis(regras)
        F == primeiros(regras, N, [X \in NaoTerminais(regras) |-> {}])
    IN  [X \in NaoTerminais(regras) |->
            F[X] \cup (IF X \in N THEN {"&"} ELSE {})]

RECURSIVE seguintes(_, _, _, _)
seguintes(regras, N, F, W) ==
    LET ocorrencias(A) ==
            UNION {{<<k, i>> : i \in {i \in DOMAIN regras[k][2] :
                                         regras[k][2][i] = A}} :
                      k \in DOMAIN regras}
        beta(o) == SubSeq(regras[o[1]][2], o[2] + 1, Len(regras[o[1]][2]))
        mais == [A \in DOMAIN W |->
                    W[A] \cup UNION {primeiros_de(F, N, beta(o))
                                        \cup (IF anulavel(N, beta(o))
                                              THEN W[regras[o[1]][1]] ELSE {}) :
                                     o \in ocorrencias(A)}]
    IN  IF mais = W THEN W ELSE seguintes(regras, N, F, mais)

\* FOLLOW of every nonterminal
FOLLOW(regras) ==
    LET N == Anulaveis(regras)
        F == primeiros(regras, N, [X \in NaoTerminais(regras) |-> {}])
    IN  seguintes(regras, N, F,
            [A \in NaoTerminais(regras) |->
                IF A = regras[1][1] THEN {"$"} ELSE {}])

\* the nonterminals a body of X can begin with, nullable ones skipped
a_esquerda(regras, N, X) ==
    UNION {{regras[k][2][i] :
               i \in {i \in DOMAIN regras[k][2] :
                         /\ ~is_terminal(regras[k][2][i])
                         /\ anulavel(N, SubSeq(regras[k][2], 1, i - 1))}} :
           k \in {k \in DOMAIN regras : regras[k][1] = X}}

RECURSIVE alcanca(_, _, _)
alcanca(regras, N, Xs) ==
    LET mais == Xs \cup UNION {a_esquerda(regras, N, X) : X \in Xs}
    IN  IF mais = Xs THEN Xs ELSE alcanca(regras, N, mais)

\* the nonterminals that derive a form beginning with themselves
recursivos_a_esquerda(regras) ==
    LET N == Anulaveis(regras)
    IN  {A \in NaoTerminais(regras) :
            A \in alcanca(regras, N, a_esquerda(regras, N, A))}

---------------------------------------------------------------------------
(* The grammars given to the two programs *)

MaxRegras == 3

NaoTerminaisDeEntrada == {"S", "A"}
TerminaisDeEntrada == {"a", "b"}

\* the bodies: '&', one symbol, or two symbols of which one is a nonterminal
Corpos ==
    LET V == NaoTerminaisDeEntrada \cup TerminaisDeEntrada
    IN  {<<"&">>} \cup {<<x>> : x \in V}
            \cup {<<x, y>> : <<x, y>> \in
                    {p \in V \X V : p[1] \in NaoTerminaisDeEntrada
                                    \/ p[2] \in NaoTerminaisDeEntrada}}

RECURSIVE ListasDeRegras(_)
\* the rule lists of n rules; the first head, the start symbol, is S
ListasDeRegras(n) ==
    IF n = 1 THEN {<<<<"S", body>>>> : body \in Corpos}
    ELSE {Append(regras, <<head, body>>) :
             regras \in ListasDeRegras(n - 1),
             head \in NaoTerminaisDeEntrada, body \in Corpos}

\* S=AB;A=aA;A=&;B=b
GramaticaExemplo ==
    << <<"S", <<"A", "B">>>>, <<"A", <<"a", "A">>>>, <<"A", <<"&">>>>,
       <<"B", <<"b">>>> >>

\* S=AB;B=Ab;A=&
GramaticaSeguinte ==
    << <<"S", <<"A", "B">>>>, <<"B", <<"A", "b">>>>, <<"A", <<"&">>>> >>

\* A=Bc;B=Aa
GramaticaCiclica ==
    << <<"A", <<"B", "c">>>>, <<"B", <<"A", "a">>>> >>

\* E=E+T;E=T;T=i
GramaticaRecursiva ==
    << <<"E", <<"E", "+", "T">>>>, <<"E", <<"T">>>>, <<"T", <<"i">>>> >>

\* S=a;A=b;S=c
GramaticaIntercalada ==
    << <<"S", <<"a">>>>, <<"A", <<"b">>>>, <<"S", <<"c">>>> >>

\* the rule lists of up to n rules, and the five grammars above
Gramaticas(n) ==
    UNION {ListasDeRegras(k) : k \in 1..n}
        \cup {GramaticaExemplo, GramaticaSeguinte, GramaticaCiclica,
              GramaticaRecursiva, GramaticaIntercalada}

InitG ==
    /\ pc = "parse_grammar"
    /\ erro = ""
    /\ SemAF
    /\ SemER
    /\ rules \in Gramaticas(MaxRegras)
    /\ first = <<>> /\ follow = <<>> /\ table = <<>>

\* exercicio3: get_first of every nonterminal, as main asks for them
E3GetFirst ==
    /\ pc = "parse_grammar"
    /\ LET grammar == e3_Grammar(rules)
           falha == \E symbol \in e3_nonterminals(grammar) :
                        e3_get_first(grammar, <<symbol>>, RecursionLimit).erro
                            # ""
       IN  /\ erro' = IF falha THEN "RecursionError" ELSE ""
           /\ first' = IF falha THEN <<>>
                       ELSE [symbol \in e3_nonterminals(grammar) |->
                                e3_get_first(grammar, <<symbol>>,
                                             RecursionLimit).valor]
    /\ pc' = "e3_get_first"
    /\ UNCHANGED <<rules, follow, table, vars_af, vars_er>>

\* exercicio3: get_follow of every nonterminal
E3GetFollow ==
    /\ pc = "parse_grammar"
    /\ LET grammar == e3_Grammar(rules)
           falha == \E symbol \in e3_nonterminals(grammar) :
                        e3_get_follow(grammar, symbol, <<>>,
                                      RecursionLimit).erro # ""
       IN  /\ erro' = IF falha THEN "RecursionError" ELSE ""
           /\ follow' = IF falha THEN <<>>
                        ELSE [symbol \in e3_nonterminals(grammar) |->
                                 e3_get_follow(grammar, symbol, <<>>,
                                               RecursionLimit).valor]
    /\ pc' = "e3_get_follow"
    /\ UNCHANGED <<rules, first, table, vars_af, vars_er>>

\* exercicio4: get_first of every nonterminal
E4GetFirst ==
    /\ pc = "parse_grammar"
    /\ LET grammar == e4_Grammar(rules)
       IN  first' = [symbol \in Range(e4_nonterminals(grammar)) |->
                        e4_get_first(grammar, <<symbol>>, <<>>)]
    /\ pc' = "e4_get_first"
    /\ UNCHANGED <<erro, rules, follow, table, vars_af, vars_er>>

\* exercicio4: get_follow of every nonterminal
E4GetFollow ==
    /\ pc = "parse_grammar"
    /\ LET grammar == e4_Grammar(rules)
       IN  follow' = [symbol \in Range(e4_nonterminals(grammar)) |->
                         e4_get_follow(grammar, symbol, <<>>)]
    /\ pc' = "e4_get_follow"
    /\ UNCHANGED <<erro, rules, first, table, vars_af, vars_er>>

\* exercicio4: generate_ll_table, whose GrammarException main catches
GenerateLLTable ==
    /\ pc = "parse_grammar"
    /\ table' = generate_ll_table(e4_Grammar(rules))
    /\ pc' = "generate_ll_table"
    /\ UNCHANGED <<erro, rules, first, follow, vars_af, vars_er>>

NextG ==
    \/ E3GetFirst
    \/ E3GetFollow
    \/ E4GetFirst
    \/ E4GetFollow
    \/ GenerateLLTable

SpecG == InitG /\ [][NextG]_vars

\* C7: get_first(X) is the FIRST set of X, for every grammar and every
\* nonterminal X, in both programs; for S=AB;A=aA;A=&;B=b it is
\* First(S)={a,b}, First(A)={a,&}, First(B)={b}
C7_GetFirst ==
    pc \in {"e3_get_first", "e4_get_first"} /\ erro = "" =>
        /\ first = FIRST(rules)
        /\ rules = GramaticaExemplo =>
              first = ("S" :> {"a", "b"}) @@ ("A" :> {"a", "&"})
                          @@ ("B" :> {"b"})

\* C8: get_follow(A) is the least FOLLOW set of A, for every grammar and
\* every nonterminal A, in both programs: $ for the start symbol alone,
\* FIRST(beta) without & for every rule B -> alpha A beta, and FOLLOW(B) only
\* when beta is empty or derives the empty string; it never holds &
C8_GetFollow ==
    pc \in {"e3_get_follow", "e4_get_follow"} /\ erro = "" =>
        /\ follow = FOLLOW(rules)
        /\ \A A \in DOMAIN follow : "&" \notin follow[A]

\* C9: get_first and get_follow return for every nonterminal of every
\* grammar, cyclic and left-recursive ones included, in both programs: no
\* call runs out of frames
C9_Termina ==
    pc \in {"e3_get_first", "e3_get_follow", "e4_get_first", "e4_get_follow"}
        => erro # "RecursionError"

\* C10: whenever some nonterminal of the grammar is left-recursive,
\* generate_ll_table returns no table and raises the left-recursion
\* GrammarException, naming a cycle that begins and ends with the same
\* nonterminal; for E=E+T;E=T;T=i the cycle goes through E
C10_RecursaoAEsquerda ==
    pc = "generate_ll_table" /\ recursivos_a_esquerda(rules) # {} =>
        /\ table.exc = "Gramatica recursiva a esquerda"
        /\ table.table = <<>>
        /\ table.cycle[1] = table.cycle[Len(table.cycle)]
        /\ rules = GramaticaRecursiva => "E" \in Range(table.cycle)

\* FIRST of a sequence of symbols, '&' included when it derives the empty
\* string
FIRST_de(regras, sequence) ==
    LET N == Anulaveis(regras)
        F == primeiros(regras, N, [X \in NaoTerminais(regras) |-> {}])
    IN  primeiros_de(F, N, sequence)
            \cup (IF anulavel(N, sequence) THEN {"&"} ELSE {})

\* two rules of one head whose bodies share a first terminal or are both
\* nullable
par_ambiguo(regras, i, j) ==
    /\ i # j
    /\ regras[i][1] = regras[j][1]
    /\ \/ (FIRST_de(regras, regras[i][2]) \cap FIRST_de(regras, regras[j][2]))
              \ {"&"} # {}
       \/ /\ anulavel(Anulaveis(regras), regras[i][2])
          /\ anulavel(Anulaveis(regras), regras[j][2])

\* C11: for every grammar without left recursion, get_left_ambiguity reports
\* a pair of bodies of one nonterminal whenever their FIRST sets share a
\* terminal or both are nullable, and generate_ll_table then raises the
\* not-factored GrammarException instead of returning a table; when there is
\* no such pair nothing is reported
C11_NaoFatorada ==
    pc = "generate_ll_table" /\ recursivos_a_esquerda(rules) = {} =>
        /\ (\E i, j \in DOMAIN rules : par_ambiguo(rules, i, j))
              <=> table.exc = "Gramatica nao fatorada"
        /\ table.exc = "Gramatica nao fatorada" =>
              /\ table.table = <<>>
              /\ \E i, j \in DOMAIN rules :
                    /\ par_ambiguo(rules, i, j)
                    /\ table.ambiguity[1] = rules[i][1]
                    /\ table.ambiguity[2] = <<rules[i][2], rules[j][2]>>

\* two rules of one head that the table loop writes into the same cell
colisao(self) ==
    \E i, j \in DOMAIN e4_rules(self) :
        /\ i < j
        /\ e4_rules(self)[i][1] = e4_rules(self)[j][1]
        /\ ll_symbols(self, i) \cap ll_symbols(self, j) # {}

\* C12: when two rules of one nonterminal claim the same cell while
\* generate_ll_table fills the table, the construction fails; it never
\* returns a table in which one rule index replaced another
C12_ColisaoFalha ==
    pc = "generate_ll_table" /\ colisao(e4_Grammar(rules)) =>
        table.exc # "" /\ table.table = <<>>

\* the cells the LL(1) construction gives the rule A -> alpha: the terminals
\* of FIRST(alpha), and those of FOLLOW(A) when alpha derives the empty string
celulas(regras, head, body) ==
    (FIRST_de(regras, body) \ {"&"})
        \cup (IF anulavel(Anulaveis(regras), body)
              THEN FOLLOW(regras)[head] ELSE {})

\* C13: for every grammar that passes the left-recursion and the ambiguity
\* check and in which no two rules claim a cell, the table generate_ll_table
\* returns has the entry (A, a) |-> i exactly when rule i is A -> alpha and a
\* is a terminal of FIRST(alpha), or alpha derives the empty string and a is
\* in FOLLOW(A); no entry has & as its terminal
C13_TabelaLL ==
    LET self == e4_Grammar(rules)
        rs   == e4_rules(self)
    IN  /\ pc = "generate_ll_table"
        /\ table.exc = ""
        /\ recursivos_a_esquerda(rules) = {}
        /\ ~ \E i, j \in DOMAIN rules : par_ambiguo(rules, i, j)
        /\ ~ colisao(self)
        /\ ~ \E i, j \in DOMAIN rs :
                /\ i < j /\ rs[i][1] = rs[j][1]
                /\ celulas(rules, rs[i][1], rs[i][2])
                      \cap celulas(rules, rs[j][1], rs[j][2]) # {}
        => /\ DOMAIN table.table =
                  UNION {{<<rs[i][1], a>> :
                             a \in celulas(rules, rs[i][1], rs[i][2])} :
                         i \in DOMAIN rs}
           /\ \A e \in DOMAIN table.table :
                  /\ e[2] # "&"
                  /\ table.table[e] \in DOMAIN rs
                  /\ rs[table.table[e]][1] = e[1]
                  /\ e[2] \in celulas(rules, e[1], rs[table.table[e]][2])

\* C14: the rule index in an entry of the LL(1) table is the 1-based
\* position of the rule in the input, for every grammar, also when rules of
\* different heads are interleaved as in S=a;A=b;S=c: the rule at that
\* position of the input is the rule that wrote the entry
C14_IndiceDaEntrada ==
    pc = "generate_ll_table" /\ table.exc = "" =>
        /\ \A e \in DOMAIN table.table :
              rules[table.table[e]] = e4_rules(e4_Grammar(rules))[table.table[e]]
        /\ rules = GramaticaIntercalada =>
              table.table = (<<"S", "a">> :> 1) @@ (<<"A", "b">> :> 2)
                                @@ (<<"S", "c">> :> 3)

RECURSIVE sem_repeticao(_)
\* the rule list without the rules that repeat an earlier one
sem_repeticao(regras) ==
    IF regras = <<>> THEN <<>>
    ELSE LET antes  == sem_repeticao(SubSeq(regras, 1, Len(regras) - 1))
             ultima == regras[Len(regras)]
         IN  IF ultima \in Range(antes) THEN antes ELSE Append(antes, ultima)

\* C15: in the grammar value built from the input every head holds each
\* body at most once, in both programs, and an input that repeats a rule
\* gives the same rules, the same numbering and the same results as the
\* input without the repetition
C15_SemRepeticao ==
    LET self == e4_Grammar(rules)
        sem  == sem_repeticao(rules)
    IN  /\ \A head \in DOMAIN self.rule_map :
              \A i, j \in DOMAIN self.rule_map[head] :
                  self.rule_map[head][i] = self.rule_map[head][j] => i = j
        /\ e4_rules(self) = e4_rules(e4_Grammar(sem))
        /\ e3_Grammar(rules) = e3_Grammar(sem)
        /\ pc = "generate_ll_table" =>
              table = generate_ll_table(e4_Grammar(sem))

---------------------------------------------------------------------------
(* Claims about every automaton value *)

\* the initial state and the finals are states, the transitions go between
\* states, and & is not in the alphabet
bem_formado(A) ==
    /\ A.estado_inicial \in A.estados
    /\ A.estados_finais \subseteq A.estados
    /\ \A chave \in DOMAIN A.mapa_transicoes :
          /\ chave[1] \in A.estados
          /\ A.mapa_transicoes[chave] \subseteq A.estados
    /\ Epsilon \notin A.alfabeto

\* C16: every automaton the constructor, parse, determinizar,
\* descartar_estados_inuteis or minimizar produce has its initial state and
\* its finals among its states, its transitions between its states, and no &
\* in its alphabet, automata without transitions included
C16_BemFormado ==
    /\ bem_formado(afnd)
    /\ bem_formado(descartar_estados_inuteis(afnd))
    /\ pc # "parse" /\ erro = "" => bem_formado(afd)

---------------------------------------------------------------------------
(* The methods of one automaton called twice: what they leave of self and
   what they return *)

MaxTransicoesDaChamada == 2

\* a transition map after the default was stored under the key, as
\* dict.setdefault does
mapa_apos_setdefault(mapa, origem, simbolo) ==
    IF <<origem, simbolo>> \in DOMAIN mapa THEN mapa
    ELSE mapa @@ (<<origem, simbolo>> :> {})

\* self.mapa_transicoes after transicao(origem, simbolo): dict.get gives the
\* default for a key the dict has not, and adds no key
mapa_apos_transicao(mapa, origem, simbolo) == mapa

RECURSIVE apos_leituras(_, _)
\* the transition map after transicao was asked for each key of a set
apos_leituras(mapa, pedidas) ==
    IF pedidas = {} THEN mapa
    ELSE LET chave == CHOOSE c \in pedidas : TRUE
         IN  apos_leituras(mapa_apos_transicao(mapa, chave[1], chave[2]),
                           pedidas \ {chave})

\* self after a method that asked transicao for these keys. No method
\* assigns an attribute of self; estados, estados_finais and alfabeto are
\* frozensets; the dict mapa_transicoes is read by transicao and transicoes
self_apos(self, pedidas) ==
    [self EXCEPT !.mapa_transicoes = apos_leituras(@, pedidas)]

\* the keys determinizar asks for: & of every state for the closures, and,
\* once it has the closure of the initial state, the symbols of the states
\* of the subsets
leituras_determinizar(self) ==
    (self.estados \X {Epsilon})
        \cup (IF determinizar_falha(self) THEN {}
              ELSE self.estados \X self.alfabeto)

\* the keys descartar_estados_inuteis asks for: the searches from the
\* initial state and from every state, over the alphabet
leituras_descartar(self) ==
    (self.estados \cup {self.estado_inicial}) \X self.alfabeto

\* the keys calcular_estados_equivalentes asks for
leituras_equivalentes(self) == self.estados \X self.alfabeto

\* what a call returns or raises
resultado_determinizar(self) ==
    IF determinizar_falha(self) THEN [erro |-> "KeyError"]
    ELSE [erro |-> "", valor |-> determinizar(self)]

resultado_minimizar(self, sel) ==
    IF minimizar_falha(self) THEN [erro |-> "KeyError"]
    ELSE [erro |-> "", valor |-> minimizar(self, sel)]

InitM ==
    /\ pc = "parse"
    /\ erro = ""
    /\ afd = NenhumAutomato
    /\ retorno = <<>> /\ particao = {} /\ vistas = {}
    /\ SemER
    /\ SemG
    /\ \E ts \in Subconjuntos(Estados \X (Simbolos \cup {Epsilon}) \X Estados,
                              MaxTransicoesDaChamada),
          finais \in SUBSET Estados,
          alfabeto \in {Simbolos, Simbolos \cup {Epsilon}} :
            afnd = AutomatoFinito(<<"A">>, finais, alfabeto, ts)

\* afnd.determinizar() twice
DuasVezesDeterminizar ==
    /\ pc = "parse"
    /\ pc' = "determinizar duas vezes"
    /\ LET depois == self_apos(afnd, leituras_determinizar(afnd))
       IN  /\ retorno' = <<resultado_determinizar(afnd),
                           resultado_determinizar(depois)>>
           /\ afnd' = self_apos(depois, leituras_determinizar(depois))
    /\ UNCHANGED <<erro, afd, particao, vistas, vars_er, vars_g>>

\* afnd.descartar_estados_inuteis() twice
DuasVezesDescartar ==
    /\ pc = "parse"
    /\ pc' = "descartar_estados_inuteis duas vezes"
    /\ LET depois == self_apos(afnd, leituras_descartar(afnd))
       IN  /\ retorno' = <<[erro |-> "",
                            valor |-> descartar_estados_inuteis(afnd)],
                           [erro |-> "",
                            valor |-> descartar_estados_inuteis(depois)]>>
           /\ afnd' = self_apos(depois, leituras_descartar(depois))
    /\ UNCHANGED <<erro, afd, particao, vistas, vars_er, vars_g>>

\* afnd.calcular_estados_equivalentes() twice: the sets of destinations are
\* the same objects in both calls and yield the same element first
DuasVezesEquivalentes ==
    /\ pc = "parse"
    /\ pc' = "calcular_estados_equivalentes duas vezes"
    /\ LET depois == self_apos(afnd, leituras_equivalentes(afnd))
       IN  /\ \E sel \in Selecoes(afnd) :
                  retorno' =
                      <<[erro |-> "",
                         valor |-> calcular_estados_equivalentes(afnd, sel)],
                        [erro |-> "",
                         valor |-> calcular_estados_equivalentes(depois, sel)]>>
           /\ afnd' = self_apos(depois, leituras_equivalentes(depois))
    /\ UNCHANGED <<erro, afd, particao, vistas, vars_er, vars_g>>

\* afnd.minimizar() twice: of self it reads what descartar_estados_inuteis
\* reads, the rest it reads of the automaton that one returned
DuasVezesMinimizar ==
    /\ pc = "parse"
    /\ pc' = "minimizar duas vezes"
    /\ LET depois == self_apos(afnd, leituras_descartar(afnd))
       IN  /\ \E sel \in Selecoes(descartar_estados_inuteis(afnd)) :
                  retorno' = <<resultado_minimizar(afnd, sel),
                               resultado_minimizar(depois, sel)>>
           /\ afnd' = self_apos(depois, leituras_descartar(depois))
    /\ UNCHANGED <<erro, afd, particao, vistas, vars_er, vars_g>>

NextM ==
    \/ DuasVezesDeterminizar
    \/ DuasVezesDescartar
    \/ DuasVezesEquivalentes
    \/ DuasVezesMinimizar

SpecM == InitM /\ [][NextM]_vars

---------------------------------------------------------------------------
(* src/er.py: the annotation of the syntax tree. The file is the regex
   compiler of src/exercicio2/er.py but for visit_cat, the containers of
   generate_automaton and the value convert_regex returns; er_ is src/er.py. *)

RECURSIVE er_visit_node(_, _)

er_visit_leaf(node, acc) ==
    IF node.value = ""
    THEN [node |-> [node EXCEPT !.nullable = TRUE, !.firstpos = {},
                                !.lastpos = {}],
          acc  |-> acc]
    ELSE LET pos == acc.pos + 1
         IN  [node |-> [node EXCEPT !.nullable = FALSE, !.firstpos = {pos},
                                    !.lastpos = {pos}],
              acc  |-> [acc EXCEPT !.pos = pos]]

er_visit_star(node, acc) ==
    LET child    == er_visit_node(node.child, acc)
        firstpos == child.node.firstpos
        lastpos  == child.node.lastpos
    IN  [node |-> [node EXCEPT !.child = child.node, !.nullable = TRUE,
                               !.firstpos = firstpos, !.lastpos = lastpos],
         acc  |-> [child.acc EXCEPT
                      !.followpos = followpos_update(@, lastpos, firstpos)]]

er_visit_or(node, acc) ==
    LET left  == er_visit_node(node.left, acc)
        right == er_visit_node(node.right, left.acc)
    IN  [node |-> [node EXCEPT
                      !.left = left.node, !.right = right.node,
                      !.nullable = left.node.nullable \/ right.node.nullable,
                      !.firstpos = left.node.firstpos \cup right.node.firstpos,
                      !.lastpos = left.node.lastpos \cup right.node.lastpos],
         acc  |-> right.acc]

\* lastpos=left.firstpos | right.firstpos if right.nullable else right.firstpos
er_visit_cat(node, acc) ==
    LET left  == er_visit_node(node.left, acc)
        right == er_visit_node(node.right, left.acc)
    IN  [node |-> [node EXCEPT
                      !.left = left.node, !.right = right.node,
                      !.nullable = left.node.nullable /\ right.node.nullable,
                      !.firstpos = IF left.node.nullable
                                   THEN left.node.firstpos \cup right.node.firstpos
                                   ELSE left.node.firstpos,
                      !.lastpos = IF right.node.nullable
                                  THEN left.node.firstpos \cup right.node.firstpos
                                  ELSE right.node.firstpos],
         acc  |-> [right.acc EXCEPT
                      !.followpos = followpos_update(@, left.node.lastpos,
                                                     right.node.firstpos)]]

er_visit_node(node, acc) ==
    CASE node.tipo = "LeafNode" -> er_visit_leaf(node, acc)
      [] node.tipo = "StarNode" -> er_visit_star(node, acc)
      [] node.tipo = "OrNode"   -> er_visit_or(node, acc)
      [] node.tipo = "CatNode"  -> er_visit_cat(node, acc)

er_annotate_tree(root) ==
    LET r == er_visit_node(root, AnnotationAccumulator)
    IN  [annotated_tree |-> r.node, followpos |-> r.acc.followpos]

\* src/er.py convert_regex: annotated_tree, followpos = annotate_tree(node)
ErAnnotateTree ==
    /\ pc = "parse_regex"
    /\ pc' = "er.annotate_tree"
    /\ anotacao' = er_annotate_tree(regex)
    /\ UNCHANGED <<erro, arvore, entrada, regex, dfa_tuple, saida, vars_af, vars_g>>

\* the two compilers up to the annotation
NextAnotacao == ParseRegex \/ AnnotateTree \/ ErAnnotateTree

SpecAnotacao == InitER /\ [][NextAnotacao]_vars

RECURSIVE nos(_)
\* the nodes of a tree
nos(node) ==
    {node} \cup
        CASE node.tipo = "LeafNode" -> {}
          [] node.tipo = "StarNode" -> nos(node.child)
          [] OTHER -> nos(node.left) \cup nos(node.right)

RECURSIVE marcadas(_, _)
\* the sequences of up to n positions that the words an annotated subtree
\* matches go through
marcadas(node, n) ==
    CASE node.tipo = "LeafNode" ->
            IF node.value = "" THEN {<<>>}
            ELSE {w \in {<<p>> : p \in node.firstpos} : Len(w) <= n}
      [] node.tipo = "OrNode" ->
            marcadas(node.left, n) \cup marcadas(node.right, n)
      [] node.tipo = "CatNode" ->
            UNION {{u \o v : v \in marcadas(node.right, n - Len(u))} :
                      u \in marcadas(node.left, n)}
      [] node.tipo = "StarNode" ->
            {<<>>} \cup
                UNION {{u \o v : v \in marcadas(node, n - Len(u))} :
                          u \in {u \in marcadas(node.child, n) : u # <<>>}}

\* the positions that can end a word the subtree matches; a shortest such
\* word goes through each leaf of the subtree once at most
ultimas(node) ==
    {w[Len(w)] : w \in {w \in marcadas(node, Len(get_leafs(node))) : w # <<>>}}

\* C18: visit_cat gives a Cat(A, B) node the lastpos A.lastpos + B.lastpos
\* when B is nullable and B.lastpos otherwise, and the firstpos A.firstpos +
\* B.firstpos when A is nullable and A.firstpos otherwise, for every tree and
\* in both compilers, so that the lastpos of every annotated node is the set
\* of positions that can end a word the subtree matches
C18_LastposDoCat ==
    pc \in {"annotate_tree", "er.annotate_tree"} =>
        \A node \in nos(anotacao.annotated_tree) :
            /\ node.tipo = "CatNode" =>
                  /\ node.lastpos =
                        IF node.right.nullable
                        THEN node.left.lastpos \cup node.right.lastpos
                        ELSE node.right.lastpos
                  /\ node.firstpos =
                        IF node.left.nullable
                        THEN node.left.firstpos \cup node.right.firstpos
                        ELSE node.left.firstpos
            /\ node.lastpos = ultimas(node)

\* C19: in exercicio4 the search stack cuts genuine cycles only: for every
\* grammar without left recursion and every nonterminal A, get_first(A) is
\* the union of get_first(body) over the rules A -> body, and the set a body
\* gets inside the expansion of its head is the set it gets on its own
C19_PilhaDeBusca ==
    pc = "e4_get_first" /\ recursivos_a_esquerda(rules) = {} =>
        LET self == e4_Grammar(rules)
        IN  /\ \A A \in DOMAIN first :
                  first[A] = UNION {e4_get_first(self, body, <<>>) :
                                       body \in Range(e4_get_body(self, A))}
            /\ \A k \in DOMAIN rules :
                  e4_get_first(self, rules[k][2], <<rules[k][2][1]>>)
                      = e4_get_first(self, rules[k][2], <<>>)

---------------------------------------------------------------------------
(* calcular_estados_equivalentes, one pass of its loop at a time *)

MaxTransicoesDoLaco == 3

\* afnd = parse(codificacao) of a deterministic automaton
InitLaco ==
    /\ pc = "parse"
    /\ erro = ""
    /\ afd = NenhumAutomato
    /\ retorno = <<>> /\ particao = {} /\ vistas = {}
    /\ SemER
    /\ SemG
    /\ \E ts \in Subconjuntos(Estados \X Simbolos \X Estados, MaxTransicoesDoLaco),
          finais \in SUBSET Estados :
            /\ afnd = AutomatoFinito(<<"A">>, finais, Simbolos, ts)
            /\ deterministico(afnd)

\* classes = frozenset([estados - finais, finais]); visitados = set()
ClassesIniciais ==
    /\ pc = "parse"
    /\ pc' = "while True"
    /\ particao' = {afnd.estados \ afnd.estados_finais, afnd.estados_finais}
    /\ vistas' = {}
    /\ UNCHANGED <<erro, afnd, afd, retorno, vars_er, vars_g>>

\* a pass of the loop that computes classes not in visitados
Reagrupar ==
    /\ pc = "while True"
    /\ \E sel \in Selecoes(afnd) :
          LET classes == agrupar(afnd, sel, particao)
          IN  /\ classes \notin vistas
              /\ particao' = classes
              /\ vistas' = vistas \cup {classes}
    /\ UNCHANGED <<pc, erro, afnd, afd, retorno, vars_er, vars_g>>

\* a pass of the loop that computes classes in visitados: return classes
RetornarClasses ==
    /\ pc = "while True"
    /\ pc' = "return"
    /\ \E sel \in Selecoes(afnd) :
          LET classes == agrupar(afnd, sel, particao)
          IN  /\ classes \in vistas
              /\ particao' = classes
              /\ retorno' = classes
    /\ UNCHANGED <<erro, afnd, afd, vistas, vars_er, vars_g>>

NextLaco == ClassesIniciais \/ Reagrupar \/ RetornarClasses

\* the program runs on until it returns
SpecLaco == InitLaco /\ [][NextLaco]_vars /\ WF_vars(NextLaco)

\* every class of P lies within a class of Q
refina(P, Q) == \A c \in P : \E d \in Q : c \subseteq d

\* the states of one class lack a transition by the same symbols, and the
\* classes hold the states of the automaton and no other
sem_armadilha(self, classes) ==
    /\ UNION classes = self.estados
    /\ \A c \in classes : \A e1, e2 \in c : \A simbolo \in self.alfabeto :
          (transicao(self, e1, simbolo) = {}) <=> (transicao(self, e2, simbolo) = {})

\* C20: for every deterministic automaton calcular_estados_equivalentes
\* returns; the classes each pass computes refine the classes it was given,
\* from {non-finals, finals} on; a state without a transition by a symbol is
\* grouped only with states without one, and no state is added; and grouping
\* the returned classes once more gives the same classes
C20_TerminaEstavel ==
    /\ [][pc = "while True" =>
              /\ refina(particao', particao)
              /\ sem_armadilha(afnd, particao')]_vars
    /\ [](pc = "return" =>
              /\ retorno = particao
              /\ \A sel \in Selecoes(afnd) : agrupar(afnd, sel, particao) = particao)
    /\ <>(pc = "return")

\* C20 witness: the call returned after two passes that each split a class,
\* on an automaton where a state has no transition by "a"
C20_Testemunha ==
    /\ pc = "return"
    /\ Cardinality(vistas) = 2
    /\ Cardinality(particao) = 3
    /\ \E estado \in afnd.estados : transicao(afnd, estado, "a") = {}

=============================================================================
